---- MODULE Spec2Model ----
(***************************************************************************)
(* Model of the costSplitting expense tracker.                             *)
(*                                                                         *)
(* Two revisions of the Express application are present:                   *)
(*   src/server.js          add, PUT edit, delete, pay-by-item,            *)
(*                          report, history                                *)
(*   src/unnamed/part_001   add, POST edit, delete, pay-by-person,         *)
(*                          toggle-paid, report, history                   *)
(* Both keep their expenses in data.json; one of them is deployed.  The     *)
(* routes that are textually the same in both files (add, report, history, *)
(* delete) are modelled once.                                              *)
(*                                                                         *)
(* A string is a sequence of symbols; a symbol is a single character       *)
(* (" ", "-", a digit, a letter) or a whole word that the code never looks *)
(* inside ("Martyna", "Infinity").  A JavaScript value is a tagged record  *)
(* [k, v] so that numbers, NaN, Infinity, null and strings can be compared. *)
(* Costs are whole units; floating point rounding is not modelled.         *)
(***************************************************************************)
EXTENDS Integers, Sequences, FiniteSets, TLC

(* ---------------------------- bounds ----------------------------------- *)
\* number of crypto.randomUUID() record ids handed out in a run
MaxIds == 2
\* number of crypto.randomUUID() batch ids handed out in a run
MaxBatches == 2
\* last clock reading of Date.now() in a run
MaxTime == 2

(* ---------------------------- inputs ----------------------------------- *)
Body(person, item, cost) == [person |-> person, item |-> item, cost |-> cost]
\* req.body of the add and edit forms: person, item and cost as typed
FormInputs ==
    { Body(<<"Martyna">>, <<"Taxi">>, <<"2">>),
      Body(<<" ", "Joint">>, <<"Groceries", " ">>, <<"-", "5", "a">>),
      Body(<<"Martyna">>, <<"Taxi">>, <<"a">>) }
\* the same with a person named like a member of Object.prototype
ViewInputs ==
    FormInputs \cup { Body(<<"constructor">>, <<"Taxi">>, <<"Infinity">>) }
\* req.params.username of POST /mark-paid/:username
UsernameInputs == { <<"Martyna">>, <<"Joint">>, <<"Mama">> }
ViewUsernameInputs == UsernameInputs \cup { <<"constructor">> }
\* req.params.id
IdInputs == 1..MaxIds

(* ------------------------ JavaScript values ---------------------------- *)
Num(n) == [k |-> "num", v |-> n]
NaN == [k |-> "nan", v |-> 0]
Infinity(sign) == [k |-> "inf", v |-> sign]
Null == [k |-> "null", v |-> 0]
Str(s) == [k |-> "str", v |-> s]

Digits == { "0", "2", "5" }
DigitValue(c) == CASE c = "0" -> 0 [] c = "2" -> 2 [] c = "5" -> 5

RECURSIVE trimStart(_)
trimStart(s) ==
    IF s # <<>> /\ Head(s) = " " THEN trimStart(Tail(s)) ELSE s

RECURSIVE trimEnd(_)
trimEnd(s) ==
    IF s # <<>> /\ s[Len(s)] = " " THEN trimEnd(SubSeq(s, 1, Len(s) - 1)) ELSE s

\* String.prototype.trim
trim(s) == trimEnd(trimStart(s))

\* the longest prefix of s made of digits
RECURSIVE DigitPrefix(_)
DigitPrefix(s) ==
    IF s # <<>> /\ Head(s) \in Digits
    THEN <<Head(s)>> \o DigitPrefix(Tail(s))
    ELSE <<>>

RECURSIVE DecimalValue(_)
DecimalValue(ds) ==
    IF ds = <<>> THEN 0
    ELSE 10 * DecimalValue(SubSeq(ds, 1, Len(ds) - 1)) + DigitValue(ds[Len(ds)])

\* parseFloat: skips leading white space, reads an optional sign, then
\* "Infinity" or the longest run of digits; anything after is ignored and
\* NaN is the result when no number starts the string.
parseFloat(s) ==
    LET t == trimStart(s)
        signed == t # <<>> /\ Head(t) \in { "-", "+" }
        sign == IF t # <<>> /\ Head(t) = "-" THEN -1 ELSE 1
        body == IF signed THEN Tail(t) ELSE t
        ds == DigitPrefix(body)
    IN  IF body # <<>> /\ Head(body) = "Infinity" THEN Infinity(sign)
        ELSE IF ds = <<>> THEN NaN
        ELSE Num(sign * DecimalValue(ds))

isNaN(x) == x.k = "nan"

\* JSON.stringify followed by JSON.parse of one value: NaN and the
\* infinities are written as null.
JSONValue(x) == IF x.k \in { "nan", "inf" } THEN Null ELSE x

\* the number a value counts as under the + operator (null counts as 0)
ToNumber(x) == IF x.k = "num" THEN x.v ELSE 0

(* ------------------------------ state ---------------------------------- *)
VARIABLES
    revision,   \* the file that is deployed: "server.js" or "part_001"
    data,       \* the parsed contents of data.json: a sequence of expenses
    now,        \* what Date.now() reads
    nextId,     \* the next unused record uuid
    nextBatch,  \* the next unused batch uuid
    req,        \* the last request handled
    res,        \* the response to it
    calls       \* the handlers suspended at an await, and what they hold

vars == << revision, data, now, nextId, nextBatch, req, res, calls >>

\* readExpenses: the parsed file, [] when the file does not exist
readExpenses == data

\* writeExpenses then the next readExpenses: the JSON round trip
writeExpenses(expenses) ==
    [i \in DOMAIN expenses |-> [expenses[i] EXCEPT !.cost = JSONValue(@)]]

\* the route of a request
Request(op) == [op |-> op]

\* responses
\* responses: the status, the text or location sent, the value spliced into
\* the text, and the view model handed to a template
Redirect(location) ==
    [status |-> 302, body |-> location, arg |-> <<>>, view |-> <<>>]
Status(code, text) ==
    [status |-> code, body |-> text, arg |-> <<>>, view |-> <<>>]
StatusFor(code, text, arg) ==
    [status |-> code, body |-> text, arg |-> arg, view |-> <<>>]
\* res.render(template, view model)
Render(template, view) ==
    [status |-> 200, body |-> template, arg |-> <<>>, view |-> view]

Revisions == { "server.js", "part_001" }

\* two requests whose handlers may be suspended at the same time
Calls == { 1, 2 }

\* a handler that has not been entered
IdleCall ==
    [ pc |-> "idle", op |-> "none", id |-> 0,
      snapshot |-> <<>>, expenses |-> <<>>, res |-> Status(200, "") ]

Init ==
    /\ calls = [p \in Calls |-> IdleCall]
    /\ revision \in Revisions
    /\ data = <<>>
    /\ now = 1
    /\ nextId = 1
    /\ nextBatch = 1
    /\ req = Request("none")
    /\ res = Status(200, "")

\* index of the first expense with the id, 0 where the code has -1
findIndex(expenses, id) ==
    IF \E i \in DOMAIN expenses : expenses[i].id = id
    THEN CHOOSE i \in DOMAIN expenses :
            /\ expenses[i].id = id
            /\ \A j \in 1..(i - 1) : expenses[j].id # id
    ELSE 0

(* ----------------------------- clock ----------------------------------- *)
\* time passes between and during requests; the clock never runs backwards
Tick ==
    /\ now < MaxTime
    /\ now' = now + 1
    /\ UNCHANGED << data, nextId, nextBatch, req, res >>

(* ------------------------------ add ------------------------------------ *)
\* POST /expenses; the redirect goes back to the form, its ?person= query
\* (added for the names of PREFILLED_NAMES) is left out of the location
AddExpense(person, item, cost) ==
    /\ req' = Request("add")
    /\ IF person = <<>> \/ item = <<>> \/ cost = <<>> \/ isNaN(parseFloat(cost))
       THEN /\ res' = Redirect("/?error=Invalid input")
            /\ UNCHANGED << data, now, nextId, nextBatch >>
       ELSE /\ nextId <= MaxIds
            /\ LET newExpense ==
                      [ id |-> nextId,
                        person |-> trim(person),
                        item |-> trim(item),
                        cost |-> parseFloat(cost),
                        status |-> "unpaid",
                        addedTimestamp |-> now,
                        paidTimestamp |-> Null,
                        paidBatchId |-> Null ]
               IN  data' = writeExpenses(Append(readExpenses, newExpense))
            /\ nextId' = nextId + 1
            /\ res' = Redirect("/")
            /\ UNCHANGED << now, nextBatch >>

Add(bodies) == \E b \in bodies : AddExpense(b.person, b.item, b.cost)

(* ------------------------------ edit ----------------------------------- *)
\* an edit that builds the expense anew and loses its payment status
OverwriteLosesStatus(expense, person, item, cost) ==
    [expense EXCEPT !.person = trim(person),
                    !.item = trim(item),
                    !.cost = parseFloat(cost),
                    !.status = "unpaid"]

\* the three fields an edit overwrites; every other field is spread from
\* the stored expense
Overwrite(expense, person, item, cost) ==
    [expense EXCEPT !.person = trim(person),
                    !.item = trim(item),
                    !.cost = parseFloat(cost)]

\* POST /expenses/:id (part_001)
UpdateExpense(expenseId, person, item, cost) ==
    /\ req' = Request("edit")
    /\ UNCHANGED << now, nextId, nextBatch >>
    /\ IF person = <<>> \/ item = <<>> \/ cost = <<>> \/ isNaN(parseFloat(cost))
       THEN /\ res' = Redirect("/expenses/:id/edit?error=Invalid input")
            /\ UNCHANGED data
       ELSE LET expenses == readExpenses
                expenseIndex == findIndex(expenses, expenseId)
            IN  IF expenseIndex = 0
                THEN /\ res' = Status(404, "Expense not found.")
                     /\ UNCHANGED data
                ELSE /\ data' = writeExpenses(
                            [expenses EXCEPT ![expenseIndex] =
                                Overwrite(@, person, item, cost)])
                     /\ res' = Redirect("/report")

\* a test that takes no expense for paid
NeverPaid(expense) == FALSE

\* expenses[expenseIndex].status === 'paid' (server.js)
AlreadyPaid(expense) == expense.status = "paid"

\* PUT /expenses/:id (server.js): no validation of the body, paid
\* expenses are refused
PutExpense(expenseId, person, item, cost) ==
    /\ req' = Request("put")
    /\ UNCHANGED << now, nextId, nextBatch >>
    /\ LET expenses == readExpenses
           expenseIndex == findIndex(expenses, expenseId)
       IN  IF expenseIndex = 0
           THEN /\ res' = Status(404, "Expense not found")
                /\ UNCHANGED data
           ELSE IF AlreadyPaid(expenses[expenseIndex])
           THEN /\ res' = Status(400, "Cannot edit already paid expenses.")
                /\ UNCHANGED data
           ELSE /\ data' = writeExpenses(
                       [expenses EXCEPT ![expenseIndex] =
                           Overwrite(@, person, item, cost)])
                /\ res' = Redirect("/report")

(* ----------------------------- delete ---------------------------------- *)
\* a filter with the test the wrong way round
WithId(expenses, expenseId) ==
    SelectSeq(expenses, LAMBDA e : e.id = expenseId)

\* the expenses whose id is not the given one
WithoutId(expenses, expenseId) ==
    SelectSeq(expenses, LAMBDA e : e.id # expenseId)

\* DELETE /expenses/:id (the same in both files)
DeleteExpense(expenseId) ==
    /\ req' = Request("delete")
    /\ UNCHANGED << now, nextId, nextBatch >>
    /\ LET expenses == readExpenses
           filteredExpenses == WithoutId(expenses, expenseId)
       IN  IF Len(filteredExpenses) = Len(expenses)
           THEN /\ res' = Status(404, "Expense not found")
                /\ UNCHANGED data
           ELSE /\ data' = writeExpenses(filteredExpenses)
                /\ res' = Redirect("/report")

(* ------------------------------ pay ------------------------------------ *)
\* `batch-${crypto.randomUUID()}`
BatchId(n) == Str(<<"batch-", n>>)

\* a stamp that forgets to set the status
StampedOnly(expense, paidTimestamp, paidBatchId) ==
    [expense EXCEPT !.paidTimestamp = Num(paidTimestamp),
                    !.paidBatchId = paidBatchId]

\* an expense stamped as paid
Paid(expense, paidTimestamp, paidBatchId) ==
    [expense EXCEPT !.status = "paid",
                    !.paidTimestamp = Num(paidTimestamp),
                    !.paidBatchId = paidBatchId]

\* POST /mark-paid/item/:id (server.js)
MarkPaidItem(expenseId) ==
    /\ req' = Request("payItem")
    /\ UNCHANGED nextId
    /\ LET expenses == readExpenses
           expenseIndex == findIndex(expenses, expenseId)
       IN  IF expenseIndex = 0
           THEN /\ res' = Status(404, "Expense not found")
                /\ UNCHANGED << data, now, nextBatch >>
           ELSE IF AlreadyPaid(expenses[expenseIndex])
           THEN /\ res' = Status(400, "Item is already marked as paid.")
                /\ UNCHANGED << data, now, nextBatch >>
           ELSE /\ nextBatch <= MaxBatches
                /\ data' = writeExpenses(
                       [expenses EXCEPT ![expenseIndex] =
                           Paid(@, now, BatchId(nextBatch))])
                /\ nextBatch' = nextBatch + 1
                /\ res' = Redirect("/report")
                /\ UNCHANGED now

\* a selection that forgets the status
SelectedAnyStatus(item, username) == item.person = username

\* the selection of POST /mark-paid/:username
Selected(item, username) == item.person = username /\ item.status # "paid"

itemsToMarkAsPaid(expenses, username) ==
    SelectSeq(expenses, LAMBDA item : Selected(item, username))

\* the map over the selection: every item gets its own Date.now() reading
\* (stamps[i]: the clock may tick between two items) and its own randomUUID()
updatedItems(items, stamps, firstBatch) ==
    [i \in DOMAIN items |-> Paid(items[i], stamps[i], BatchId(firstBatch + i - 1))]

\* POST /mark-paid/:username (part_001)
MarkPaidUser(username) ==
    /\ req' = Request("payPerson")
    /\ UNCHANGED nextId
    /\ LET expenses == readExpenses
           items == itemsToMarkAsPaid(expenses, username)
           n == Len(items)
       IN  IF n = 0
           THEN /\ res' = StatusFor(404, "No unpaid items found for", username)
                /\ UNCHANGED << data, now, nextBatch >>
           ELSE /\ nextBatch + n - 1 <= MaxBatches
                /\ \E stamps \in [1..n -> now..MaxTime] :
                     /\ \A i \in 1..(n - 1) : stamps[i] <= stamps[i + 1]
                     /\ data' = writeExpenses(
                            SelectSeq(expenses,
                                      LAMBDA item : ~Selected(item, username))
                            \o updatedItems(items, stamps, nextBatch))
                     /\ now' = stamps[n]
                /\ nextBatch' = nextBatch + n
                /\ res' = Redirect("/report")

\* a toggle that leaves the batch id behind
UnpaidKeepsBatch(expense) ==
    [expense EXCEPT !.status = "unpaid",
                    !.paidTimestamp = Null]

\* an expense put back to unpaid
Unpaid(expense) ==
    [expense EXCEPT !.status = "unpaid",
                    !.paidTimestamp = Null,
                    !.paidBatchId = Null]

\* POST /expenses/:id/toggle-paid (part_001)
TogglePaid(expenseId) ==
    /\ req' = Request("toggle")
    /\ UNCHANGED nextId
    /\ LET expenses == readExpenses
           expenseIndex == findIndex(expenses, expenseId)
       IN  IF expenseIndex = 0
           THEN /\ res' = Status(404, "Expense not found.")
                /\ UNCHANGED << data, now, nextBatch >>
           ELSE IF expenses[expenseIndex].status = "paid"
           THEN /\ data' = writeExpenses(
                       [expenses EXCEPT ![expenseIndex] = Unpaid(@)])
                /\ res' = Redirect("/report")
                /\ UNCHANGED << now, nextBatch >>
           ELSE /\ nextBatch <= MaxBatches
                /\ data' = writeExpenses(
                       [expenses EXCEPT ![expenseIndex] =
                           Paid(@, now, BatchId(nextBatch))])
                /\ nextBatch' = nextBatch + 1
                /\ res' = Redirect("/report")
                /\ UNCHANGED now

(* ----------------------------- report ---------------------------------- *)
\* items.sort((a, b) => a.addedTimestamp - b.addedTimestamp): the sort is
\* stable, an item goes behind the items that are not later than it
RECURSIVE insertByAdded(_, _)
insertByAdded(x, sorted) ==
    IF sorted = <<>> THEN <<x>>
    ELSE IF Head(sorted).addedTimestamp <= x.addedTimestamp
    THEN <<Head(sorted)>> \o insertByAdded(x, Tail(sorted))
    ELSE <<x>> \o sorted

RECURSIVE sortByAdded(_)
sortByAdded(items) ==
    IF items = <<>> THEN <<>>
    ELSE insertByAdded(items[Len(items)],
                       sortByAdded(SubSeq(items, 1, Len(items) - 1)))

\* names every object literal {} answers for through Object.prototype
ObjectPrototypeKeys ==
    { <<"constructor">>, <<"toString">>, <<"valueOf">>, <<"hasOwnProperty">>,
      <<"__proto__">> }

unpaidExpenses(expenses) == SelectSeq(expenses, LAMBDA e : e.status = "unpaid")

\* position of the person's own entry in reportData, 0 when it has none
ownKey(reportData, person) ==
    IF \E i \in DOMAIN reportData : reportData[i].person = person
    THEN CHOOSE i \in DOMAIN reportData : reportData[i].person = person
    ELSE 0

\* one step of the first forEach: reportData is kept as the sequence of its
\* entries in key insertion order
addToReport(reportData, expense) ==
    LET i == ownKey(reportData, expense.person)
    IN  IF i = 0
        THEN Append(reportData,
                    [ person |-> expense.person,
                      items |-> <<expense>>,
                      total |-> 0 + ToNumber(expense.cost) ])
        ELSE [reportData EXCEPT
                ![i].items = Append(@, expense),
                ![i].total = @ + ToNumber(expense.cost)]

RECURSIVE groupByPerson(_)
groupByPerson(expenses) ==
    IF expenses = <<>> THEN <<>>
    ELSE addToReport(groupByPerson(SubSeq(expenses, 1, Len(expenses) - 1)),
                     expenses[Len(expenses)])

\* reportData[expense.person] is truthy for a name inherited from
\* Object.prototype, the entry is then not created and .items.push throws
reportThrows(expenses) ==
    \E i \in DOMAIN expenses :
        /\ expenses[i].status = "unpaid"
        /\ expenses[i].person \in ObjectPrototypeKeys

\* the view model of GET /report when nothing throws
reportData(expenses) ==
    LET grouped == groupByPerson(unpaidExpenses(expenses))
    IN  [i \in DOMAIN grouped |->
            [grouped[i] EXCEPT !.items = sortByAdded(@)]]

\* GET /report (the same in both files)
GetReport ==
    /\ req' = Request("report")
    /\ res' = IF reportThrows(readExpenses)
              THEN Status(500, "Error reading expense data for report.")
              ELSE Render("report", reportData(readExpenses))
    /\ UNCHANGED << data, now, nextId, nextBatch >>

(* ----------------------------- history --------------------------------- *)
paidExpenses(expenses) == SelectSeq(expenses, LAMBDA e : e.status = "paid")

ownBatch(historyBatches, batchId) ==
    IF \E i \in DOMAIN historyBatches : historyBatches[i].batchId = batchId
    THEN CHOOSE i \in DOMAIN historyBatches : historyBatches[i].batchId = batchId
    ELSE 0

\* one step of the forEach over the paid expenses
addToHistory(historyBatches, expense) ==
    IF expense.paidBatchId.k = "null" THEN historyBatches
    ELSE LET i == ownBatch(historyBatches, expense.paidBatchId)
         IN  IF i = 0
             THEN Append(historyBatches,
                         [ person |-> expense.person,
                           timestamp |-> expense.paidTimestamp,
                           batchId |-> expense.paidBatchId,
                           items |-> <<expense>>,
                           total |-> 0 + ToNumber(expense.cost) ])
             ELSE [historyBatches EXCEPT
                     ![i].items = Append(@, expense),
                     ![i].total = @ + ToNumber(expense.cost)]

RECURSIVE groupByBatch(_)
groupByBatch(expenses) ==
    IF expenses = <<>> THEN <<>>
    ELSE addToHistory(groupByBatch(SubSeq(expenses, 1, Len(expenses) - 1)),
                      expenses[Len(expenses)])

\* sort((a, b) => b.timestamp - a.timestamp): stable, latest payment first
RECURSIVE insertByPaid(_, _)
insertByPaid(x, sorted) ==
    IF sorted = <<>> THEN <<x>>
    ELSE IF ToNumber(Head(sorted).timestamp) >= ToNumber(x.timestamp)
    THEN <<Head(sorted)>> \o insertByPaid(x, Tail(sorted))
    ELSE <<x>> \o sorted

RECURSIVE sortByPaid(_)
sortByPaid(batches) ==
    IF batches = <<>> THEN <<>>
    ELSE insertByPaid(batches[Len(batches)],
                      sortByPaid(SubSeq(batches, 1, Len(batches) - 1)))

\* the view model of GET /history
sortedHistory(expenses) ==
    LET sorted == sortByPaid(groupByBatch(paidExpenses(expenses)))
    IN  [i \in DOMAIN sorted |-> [sorted[i] EXCEPT !.items = sortByAdded(@)]]

\* GET /history (the same in both files)
GetHistory ==
    /\ req' = Request("history")
    /\ res' = Render("history", sortedHistory(readExpenses))
    /\ UNCHANGED << data, now, nextId, nextBatch >>

(* ----------------------- interleaved handlers -------------------------- *)
\* The handlers are async functions: one runs until fs.writeFile is handed
\* the array it computed from what readExpenses returned, and is resumed when
\* the file has been written; another handler may run in between.  A read
\* and a write of the file are each taken as one step.

\* a write that keeps the records the file has gained since the read
WrittenMerged(call) ==
    call.expenses \o
    SelectSeq(data, LAMBDA e : \A i \in DOMAIN call.expenses :
                                  call.expenses[i].id # e.id)

\* what writeExpenses is given: the array the handler read and changed
Written(call) == call.expenses

\* POST /expenses up to the await of writeExpenses
AddExpenseRead(p, person, item, cost) ==
    /\ calls[p].pc # "write"
    /\ IF person = <<>> \/ item = <<>> \/ cost = <<>> \/ isNaN(parseFloat(cost))
       THEN /\ calls' = [calls EXCEPT ![p] =
                    [IdleCall EXCEPT !.pc = "done", !.op = "add",
                                     !.res = Redirect("/?error=Invalid input")]]
            /\ UNCHANGED << data, now, nextId, nextBatch, req, res >>
       ELSE /\ nextId <= MaxIds
            /\ LET newExpense ==
                      [ id |-> nextId,
                        person |-> trim(person),
                        item |-> trim(item),
                        cost |-> parseFloat(cost),
                        status |-> "unpaid",
                        addedTimestamp |-> now,
                        paidTimestamp |-> Null,
                        paidBatchId |-> Null ]
                   expenses == readExpenses
               IN  calls' = [calls EXCEPT ![p] =
                       [ pc |-> "write", op |-> "add", id |-> nextId,
                         snapshot |-> expenses,
                         expenses |-> Append(expenses, newExpense),
                         res |-> Status(200, "") ]]
            /\ nextId' = nextId + 1
            /\ UNCHANGED << data, now, nextBatch, req, res >>

\* POST /expenses/:id/toggle-paid up to the await of writeExpenses (part_001)
TogglePaidRead(p, expenseId) ==
    /\ calls[p].pc # "write"
    /\ UNCHANGED << data, now, nextId, req, res >>
    /\ LET expenses == readExpenses
           expenseIndex == findIndex(expenses, expenseId)
           call == [ pc |-> "write", op |-> "toggle", id |-> expenseId,
                     snapshot |-> expenses, expenses |-> expenses,
                     res |-> Status(200, "") ]
       IN  IF expenseIndex = 0
           THEN /\ calls' = [calls EXCEPT ![p] =
                        [IdleCall EXCEPT !.pc = "done", !.op = "toggle",
                                         !.id = expenseId,
                                         !.res = Status(404, "Expense not found.")]]
                /\ UNCHANGED nextBatch
           ELSE IF expenses[expenseIndex].status = "paid"
           THEN /\ calls' = [calls EXCEPT ![p] =
                        [call EXCEPT !.expenses[expenseIndex] = Unpaid(@)]]
                /\ UNCHANGED nextBatch
           ELSE /\ nextBatch <= MaxBatches
                /\ calls' = [calls EXCEPT ![p] =
                        [call EXCEPT !.expenses[expenseIndex] =
                            Paid(@, now, BatchId(nextBatch))]]
                /\ nextBatch' = nextBatch + 1

\* writeExpenses resolves and the handler redirects
WriteExpensesDone(p) ==
    /\ calls[p].pc = "write"
    /\ data' = writeExpenses(Written(calls[p]))
    /\ calls' = [calls EXCEPT ![p].pc = "done",
                              ![p].res = IF calls[p].op = "add"
                                         THEN Redirect("/")
                                         ELSE Redirect("/report")]
    /\ UNCHANGED << now, nextId, nextBatch, req, res >>

(* --------------------------- specifications ---------------------------- *)
Update(bodies) == \E id \in IdInputs, b \in bodies :
                     UpdateExpense(id, b.person, b.item, b.cost)

Put(bodies) == \E id \in IdInputs, b \in bodies :
                  PutExpense(id, b.person, b.item, b.cost)

Delete == \E id \in IdInputs : DeleteExpense(id)

PayItem == \E id \in IdInputs : MarkPaidItem(id)

PayPerson(usernames) == \E username \in usernames : MarkPaidUser(username)

Toggle == \E id \in IdInputs : TogglePaid(id)

\* a step of the deployed revision: no route redeploys
Serve(file, step) ==
    revision = file /\ step /\ UNCHANGED << revision, calls >>

\* the clock and the routes of src/server.js that write data.json
NextServer ==
    \/ Serve("server.js", Tick)
    \/ Serve("server.js", Add(FormInputs))
    \/ Serve("server.js", Put(FormInputs))
    \/ Serve("server.js", Delete)
    \/ Serve("server.js", PayItem)

\* the clock and the routes of src/unnamed/part_001 that write data.json
NextApp ==
    \/ Serve("part_001", Tick)
    \/ Serve("part_001", Add(FormInputs))
    \/ Serve("part_001", Update(FormInputs))
    \/ Serve("part_001", Delete)
    \/ Serve("part_001", PayPerson(UsernameInputs))
    \/ Serve("part_001", Toggle)

\* the writing routes of whichever revision is deployed
Next ==
    \/ NextServer
    \/ NextApp

\* the routes of src/unnamed/part_001 with its two views
NextViews ==
    \/ Serve("part_001", Tick)
    \/ Serve("part_001", Add(ViewInputs))
    \/ Serve("part_001", Update(ViewInputs))
    \/ Serve("part_001", Delete)
    \/ Serve("part_001", PayPerson(ViewUsernameInputs))
    \/ Serve("part_001", Toggle)
    \/ Serve("part_001", GetReport)
    \/ Serve("part_001", GetHistory)

Spec == Init /\ [][Next]_vars
\* the state after one or the other revision is started
InitServer == Init /\ revision = "server.js"
InitApp == Init /\ revision = "part_001"

SpecServer == InitServer /\ [][NextServer]_vars
SpecApp == InitApp /\ [][NextApp]_vars
SpecViews == InitApp /\ [][NextViews]_vars

\* requests, add or toggle-paid, of which two may be suspended at a time, on
\* part_001; they arrive within one reading of the clock
NextRace ==
    \/ \E p \in Calls, b \in FormInputs :
          AddExpenseRead(p, b.person, b.item, b.cost) /\ UNCHANGED revision
    \/ \E p \in Calls, id \in IdInputs :
          TogglePaidRead(p, id) /\ UNCHANGED revision
    \/ \E p \in Calls : WriteExpensesDone(p) /\ UNCHANGED revision

SpecRace == InitApp /\ [][NextRace]_vars

(* ------------------------------ claims --------------------------------- *)
Ids(expenses) == { expenses[i].id : i \in DOMAIN expenses }
Range(seq) == { seq[i] : i \in DOMAIN seq }
ById(expenses, id) == CHOOSE e \in Range(expenses) : e.id = id

\* the expenses a step turned from unpaid to paid
Cohort == { id \in Ids(data) \cap Ids(data') :
              /\ ById(data, id).status = "unpaid"
              /\ ById(data', id).status = "paid" }

\* an expense that differs from another in no field but the payment fields
SameButPayment(a, b) ==
    /\ a.id = b.id
    /\ a.person = b.person
    /\ a.item = b.item
    /\ a.cost = b.cost
    /\ a.addedTimestamp = b.addedTimestamp

\* C1: pay-by-person on a person with N >= 1 unpaid expenses turns exactly
\* those N into paid expenses that all carry one paidBatchId and one
\* paidTimestamp, and every other expense is left as it was.
C1_PayByPersonOneBatch ==
    [][ \A u \in UsernameInputs :
          ( /\ MarkPaidUser(u)
            /\ \E e \in Range(data) : e.person = u /\ e.status = "unpaid" )
          => LET unpaid == { e.id : e \in { x \in Range(data) :
                                  x.person = u /\ x.status = "unpaid" } }
             IN  /\ Ids(data') = Ids(data)
                 /\ Cohort = unpaid
                 /\ \A id \in unpaid : SameButPayment(ById(data, id), ById(data', id))
                 /\ \A a, b \in unpaid :
                      /\ ById(data', a).paidBatchId = ById(data', b).paidBatchId
                      /\ ById(data', a).paidTimestamp = ById(data', b).paidTimestamp
                 /\ \A id \in Ids(data) \ unpaid : ById(data', id) = ById(data, id)
      ]_vars

\* C3: every stored expense is unpaid with paidTimestamp and paidBatchId
\* both null, or paid with both set.
C3_PaymentFieldsTogether ==
    \A i \in DOMAIN data :
        \/ /\ data[i].status = "unpaid"
           /\ data[i].paidTimestamp = Null
           /\ data[i].paidBatchId = Null
        \/ /\ data[i].status = "paid"
           /\ data[i].paidTimestamp.k = "num"
           /\ data[i].paidBatchId.k = "str"

\* a toggle has put one expense back to unpaid beside a paid one
C3_Witness ==
    /\ req.op = "toggle"
    /\ res.status = 302
    /\ \E i, j \in DOMAIN data :
         /\ data[i].status = "paid"
         /\ data[j].status = "unpaid"
         /\ nextBatch > 2

\* C4: pay-by-person for a name with no unpaid expense answers 404 and
\* leaves data.json as it was.
C4_PayByPersonNotFound ==
    [][ \A u \in UsernameInputs :
          ( /\ req'.op = "payPerson"
            /\ MarkPaidUser(u)
            /\ \A e \in Range(data) : e.person = u => e.status = "paid" )
          => /\ res'.status = 404
             /\ data' = data
      ]_vars

\* pay-by-person was refused for a person all of whose expenses are paid
C4_Witness ==
    /\ req.op = "payPerson"
    /\ res.status = 404
    /\ \E e \in Range(data) : e.person = res.arg /\ e.status = "paid"
    /\ \E e \in Range(data) : e.person # res.arg /\ e.status = "unpaid"

\* the ids of the items of a history entry or report group
ItemIds(entry) == { entry.items[i].id : i \in DOMAIN entry.items }

\* C2: right after a successful pay action the history view holds exactly
\* one entry for that payment, and its items are the expenses just paid.
C2_HistoryInvertsBatch ==
    [][ ( /\ \/ \E u \in ViewUsernameInputs : MarkPaidUser(u)
             \/ \E id \in IdInputs : TogglePaid(id)
          /\ Cohort # {} )
        => LET h == sortedHistory(data')
           IN  /\ Cardinality({ i \in DOMAIN h : ItemIds(h[i]) \cap Cohort # {} }) = 1
               /\ \E i \in DOMAIN h : ItemIds(h[i]) = Cohort
      ]_vars

\* C5: pay-by-item answers 404 for an unknown id and 400 for a paid expense
\* and leaves data.json as it was; otherwise only that expense changes, and
\* only in status, paidTimestamp and paidBatchId.
C5_PayByItem ==
    [][ \A id \in IdInputs :
          (req'.op = "payItem" /\ MarkPaidItem(id))
          => IF id \notin Ids(data)
             THEN res'.status = 404 /\ data' = data
             ELSE IF ById(data, id).status = "paid"
             THEN res'.status = 400 /\ data' = data
             ELSE /\ res' = Redirect("/report")
                  /\ Len(data') = Len(data)
                  /\ \A i \in DOMAIN data :
                       IF data[i].id = id
                       THEN /\ SameButPayment(data[i], data'[i])
                            /\ data'[i].status = "paid"
                            /\ data'[i].paidTimestamp.k = "num"
                            /\ data'[i].paidBatchId.k = "str"
                       ELSE data'[i] = data[i]
      ]_vars

\* pay-by-item was refused for an expense that is already paid
C5_Witness ==
    /\ req.op = "payItem"
    /\ res.status = 400
    /\ \E e \in Range(data) : e.status = "paid"
    /\ \E e \in Range(data) : e.status = "unpaid"

\* C6: an edit that succeeds changes the person, item and cost of the one
\* expense and nothing else: its other fields, its position and every
\* other expense stay as they were.
C6_EditFrame ==
    [][ ( /\ req'.op \in { "edit", "put" }
          /\ res' = Redirect("/report") )
        => /\ Len(data') = Len(data)
           /\ \A i \in DOMAIN data :
                data'[i] = [data[i] EXCEPT !.person = data'[i].person,
                                           !.item = data'[i].item,
                                           !.cost = data'[i].cost]
           /\ \A i, j \in DOMAIN data :
                (data'[i] # data[i] /\ data'[j] # data[j]) => i = j
      ]_vars

\* the edit form of part_001 has rewritten a paid expense beside another
C6_Witness ==
    /\ req.op = "edit"
    /\ res = Redirect("/report")
    /\ Len(data) = 2
    /\ \E e \in Range(data) : e.status = "paid" /\ e.person = <<"Joint">>

\* C7: delete answers 404 for an unknown id and leaves data.json as it
\* was; for a known id it removes that one expense and every other expense
\* stays as it was, in its place.
C7_DeleteFrame ==
    [][ \A id \in IdInputs :
          (req'.op = "delete" /\ DeleteExpense(id))
          => IF id \notin Ids(data)
             THEN res'.status = 404 /\ data' = data
             ELSE /\ res' = Redirect("/report")
                  /\ \E k \in DOMAIN data :
                       /\ data[k].id = id
                       /\ data' = SubSeq(data, 1, k - 1)
                                  \o SubSeq(data, k + 1, Len(data))
      ]_vars

\* an expense was deleted and a paid one is still there
C7_Witness ==
    /\ req.op = "delete"
    /\ res = Redirect("/report")
    /\ nextId > Len(data) + 1
    /\ \E e \in Range(data) : e.status = "paid"

\* C8: every stored cost is a positive finite number.
C8_CostPositiveFinite ==
    \A i \in DOMAIN data : data[i].cost.k = "num" /\ data[i].cost.v > 0

RECURSIVE SumCost(_)
SumCost(expenses) ==
    IF expenses = {} THEN 0
    ELSE LET e == CHOOSE x \in expenses : TRUE
         IN  ToNumber(e.cost) + SumCost(expenses \ {e})

UnpaidOf(person) ==
    { e \in Range(data) : e.person = person /\ e.status = "unpaid" }

\* the report sent is right about the totals and the groups
ReportTotals ==
    /\ res.status = 200
    /\ \A i, j \in DOMAIN res.view :
         res.view[i].person = res.view[j].person => i = j
    /\ \A i \in DOMAIN res.view :
         /\ Range(res.view[i].items) = UnpaidOf(res.view[i].person)
         /\ Len(res.view[i].items) = Cardinality(UnpaidOf(res.view[i].person))
         /\ res.view[i].total = SumCost(UnpaidOf(res.view[i].person))
    /\ \A e \in Range(data) :
         e.status = "unpaid"
         => \E i \in DOMAIN res.view : res.view[i].person = e.person

\* C9: for every set of expenses the report's total for a person is the sum
\* of the costs of that person's unpaid expenses, no paid expense is in any
\* group and a person without unpaid expenses has no group.
C9_ReportTotals == req.op = "report" => ReportTotals

\* the same for the sets of expenses in which no unpaid expense belongs to a
\* person named like a member of Object.prototype
ReportTotalsOfOwnNames ==
    (req.op = "report" /\ ~reportThrows(data)) => ReportTotals

\* C10: each group of the report lists its expenses by ascending
\* addedTimestamp, and expenses with equal addedTimestamp in the order in
\* which they were added (ids are handed out in that order).
C10_ReportOrder ==
    (req.op = "report" /\ res.status = 200)
    => \A g \in DOMAIN res.view :
         \A i, j \in DOMAIN res.view[g].items :
            i < j =>
              LET a == res.view[g].items[i]
                  b == res.view[g].items[j]
              IN  \/ a.addedTimestamp < b.addedTimestamp
                  \/ a.addedTimestamp = b.addedTimestamp /\ a.id < b.id

\* C11: two mutating requests (add, toggle-paid) interleave on data.json.
\* The request that writes second writes the array it computed from the
\* snapshot it read: a record the file gained after that read is gone after
\* the write, and every record other than the writer's own is put back to
\* what the snapshot held.  So the first writer's change is lost although
\* both requests are answered with a redirect.
C11_LostUpdate ==
    [][ \A q \in Calls :
          (calls[q].pc = "write" /\ calls'[q].pc = "done")
          => /\ \A id \in Ids(data) \ Ids(calls[q].snapshot) :
                   id \notin Ids(data')
             /\ \A id \in Ids(data') \ { calls[q].id } :
                   ById(data', id) = ById(calls[q].snapshot, id)
      ]_vars

\* both requests have been answered with their redirect, the add wrote
\* first, the toggle read before that write and wrote after it: the added
\* record is not in the store
C11_Witness ==
    \E p, q \in Calls :
        /\ calls[p].pc = "done" /\ calls[p].op = "add"
        /\ calls[p].res = Redirect("/")
        /\ calls[q].pc = "done" /\ calls[q].op = "toggle"
        /\ calls[q].res = Redirect("/report")
        /\ calls[p].id \notin Ids(calls[q].snapshot)
        /\ calls[p].id \notin Ids(data)
        /\ data = calls[q].expenses

\* C12: in server.js (add, PUT edit, delete, pay-by-item) a paid record is
\* changed by no later request: after every step it is in the store exactly
\* as it was, or it is gone and the request was a delete.  A PUT on a paid
\* record is answered 400 "Cannot edit already paid expenses." and a
\* pay-by-item on it 400 "Item is already marked as paid.", both leaving the
\* store as it was.
C12_PaidIsFinal ==
    [][ /\ \A e \in Range(data) :
              e.status = "paid"
              => \/ e \in Range(data')
                 \/ e.id \notin Ids(data') /\ req'.op = "delete"
        /\ \A id \in IdInputs, b \in FormInputs :
              ( /\ req'.op = "put"
                /\ \E e \in Range(data) : e.id = id /\ e.status = "paid"
                /\ PutExpense(id, b.person, b.item, b.cost) )
              => /\ res' = Status(400, "Cannot edit already paid expenses.")
                 /\ data' = data
        /\ \A id \in IdInputs :
              ( /\ req'.op = "payItem"
                /\ \E e \in Range(data) : e.id = id /\ e.status = "paid"
                /\ MarkPaidItem(id) )
              => /\ res' = Status(400, "Item is already marked as paid.")
                 /\ data' = data
      ]_vars

\* a PUT has been refused on a store that holds a paid record
C12_Witness ==
    /\ revision = "server.js"
    /\ req.op = "put"
    /\ res = Status(400, "Cannot edit already paid expenses.")
    /\ \E e \in Range(data) : e.status = "paid" /\ e.paidBatchId # Null

====
